---- MODULE Spec2Model ----
(***************************************************************************)
(* Commercial-loan schedule engine (loan_calculators):                     *)
(*   PaymentCalendar         payment dates and accrual days                *)
(*   EqualPrincipalLoan      equal-principal amortization                  *)
(*   EqualInstallmentLoan    equal-installment (annuity) amortization      *)
(* Money is Python decimal.Decimal under getcontext().prec = 15 and        *)
(* ROUND_HALF_UP.  A Decimal is the triple (sign, coefficient digits,      *)
(* exponent) of the decimal module; coefficients are digit sequences, most *)
(* significant digit first, so that 15-digit arithmetic is exact.          *)
(***************************************************************************)
EXTENDS Integers, Sequences, FiniteSets, TLC

(***************************************************************************)
(* Natural numbers as digit sequences (most significant digit first), the  *)
(* coefficient "_int" of a Decimal.  Sums and products are computed on     *)
(* limbs of four digits (least significant limb first).                    *)
(***************************************************************************)
\* Python evaluates an operand once and binds the value: Val(v, F) is F
\* applied to the value of v
Val(v, F(_)) == CHOOSE r \in {F(x) : x \in {v}} : TRUE
Val2(u, v, F(_, _)) == CHOOSE r \in {F(x, y) : x \in {u}, y \in {v}} : TRUE

StripZeros(s_) ==
  Val(s_, LAMBDA s :
    IF \A i \in 1..Len(s) : s[i] = 0 THEN <<0>>
    ELSE SubSeq(s, CHOOSE i \in 1..Len(s) :
                     s[i] # 0 /\ \A j \in 1..(i - 1) : s[j] = 0, Len(s)))

Zeros(k) == [i \in 1..k |-> 0]

\* the i-th least significant digit of a (0 beyond its length)
DigitLS(a, i) == IF i <= Len(a) THEN a[Len(a) + 1 - i] ELSE 0

RECURSIVE IntDigits(_)
IntDigits(n) == IF n < 10 THEN <<n>> ELSE Append(IntDigits(n \div 10), n % 10)

NatIsZero(a_) == Val(a_, LAMBDA a : \A i \in 1..Len(a) : a[i] = 0)

\* -1, 0, 1 as a < b, a = b, a > b (both without leading zeros)
NatCmp(a_, b_) ==
  Val2(a_, b_, LAMBDA a, b :
    IF Len(a) # Len(b) THEN (IF Len(a) < Len(b) THEN -1 ELSE 1)
    ELSE IF a = b THEN 0
    ELSE Val(CHOOSE j \in 1..Len(a) :
               a[j] # b[j] /\ \A l \in 1..(j - 1) : a[l] = b[l],
             LAMBDA i : IF a[i] < b[i] THEN -1 ELSE 1))

LimbBase == 10^4

ToLimbs(a_) ==
  Val(a_, LAMBDA a :
    [i \in 1..((Len(a) + 3) \div 4) |->
       DigitLS(a, 4*i - 3) + 10 * DigitLS(a, 4*i - 2)
         + 100 * DigitLS(a, 4*i - 1) + 1000 * DigitLS(a, 4*i)])

FromLimbs(x_) ==
  Val(x_, LAMBDA x :
    StripZeros([p \in 1..(4 * Len(x)) |->
                  (x[(4 * Len(x) - p) \div 4 + 1] \div 10^((4 * Len(x) - p) % 4)) % 10]))

LimbAt(x, i) == IF i <= Len(x) THEN x[i] ELSE 0

RECURSIVE LimbAddFrom(_, _, _, _)
LimbAddFrom(x, y, i, c) ==
  IF i > Len(x) /\ i > Len(y) THEN (IF c = 0 THEN <<>> ELSE <<c>>)
  ELSE LET s == LimbAt(x, i) + LimbAt(y, i) + c
       IN IF s < LimbBase THEN <<s>> \o LimbAddFrom(x, y, i + 1, 0)
          ELSE <<s - LimbBase>> \o LimbAddFrom(x, y, i + 1, 1)

NatAdd(a, b) ==
  Val2(ToLimbs(a), ToLimbs(b), LAMBDA x, y : FromLimbs(LimbAddFrom(x, y, 1, 0)))

\* x - y for x >= y
RECURSIVE LimbSubFrom(_, _, _, _)
LimbSubFrom(x, y, i, c) ==
  IF i > Len(x) THEN <<>>
  ELSE LET s == LimbAt(x, i) - LimbAt(y, i) - c
       IN IF s >= 0 THEN <<s>> \o LimbSubFrom(x, y, i + 1, 0)
          ELSE <<s + LimbBase>> \o LimbSubFrom(x, y, i + 1, 1)

NatSub(a, b) ==
  Val2(ToLimbs(a), ToLimbs(b), LAMBDA x, y : FromLimbs(LimbSubFrom(x, y, 1, 0)))

\* the sum of x[i] * y[k + 1 - i] over the limbs i.. of x
RECURSIVE LimbColumn(_, _, _, _)
LimbColumn(x, y, k, i) ==
  IF i > Len(x) \/ i > k THEN 0
  ELSE x[i] * LimbAt(y, k + 1 - i) + LimbColumn(x, y, k, i + 1)

RECURSIVE LimbMulFrom(_, _, _, _)
LimbMulFrom(x, y, k, c) ==
  IF k > Len(x) + Len(y) THEN <<>>
  ELSE LET s == LimbColumn(x, y, k, 1) + c
       IN <<s % LimbBase>> \o LimbMulFrom(x, y, k + 1, s \div LimbBase)

NatMul(a, b) ==
  Val2(ToLimbs(a), ToLimbs(b), LAMBDA x, y : FromLimbs(LimbMulFrom(x, y, 1, 0)))

\* a * 10^k
NatShift(a_, k) == Val(a_, LAMBDA a : IF NatIsZero(a) THEN <<0>> ELSE a \o Zeros(k))

\* the value of at most nine digits
RECURSIVE DigitsValue(_, _)
DigitsValue(s, i) == IF i = 0 THEN 0 ELSE 10 * DigitsValue(s, i - 1) + s[i]

\* long division by a divisor bi of at most eight digits; the remainder ri
\* is an integer below bi
RECURSIVE NatDivSmall(_, _, _, _, _)
NatDivSmall(a, bi, i, q, ri) ==
  IF i > Len(a) THEN [q |-> StripZeros(q), r |-> IntDigits(ri)]
  ELSE LET r1 == 10 * ri + a[i]
       IN NatDivSmall(a, bi, i + 1, Append(q, r1 \div bi), r1 % bi)

\* x * d + c on m limbs
RECURSIVE LimbScale(_, _, _, _, _)
LimbScale(x, d, i, c, m) ==
  IF i > m THEN <<>>
  ELSE LET s == LimbAt(x, i) * d + c
       IN <<s % LimbBase>> \o LimbScale(x, d, i + 1, s \div LimbBase, m)

\* -1, 0, 1 as x < y, x = y, x > y, both of m limbs
LimbCmp(x_, y_, m) ==
  Val2(x_, y_, LAMBDA x, y :
    IF x = y THEN 0
    ELSE Val(CHOOSE j \in 1..m :
               /\ x[m + 1 - j] # y[m + 1 - j]
               /\ \A l \in 1..(j - 1) : x[m + 1 - l] = y[m + 1 - l],
             LAMBDA i : IF x[m + 1 - i] < y[m + 1 - i] THEN -1 ELSE 1))

\* the quotient digit d and the remainder of r by b (r < 10 * b, m limbs,
\* b of more than eight digits), trying x first
RECURSIVE LimbDivDigit(_, _, _, _)
LimbDivDigit(r, b, x, m) ==
  LET p == LimbScale(b, x, 1, 0, m)
  IN IF x > 9 \/ LimbCmp(p, r, m) > 0 THEN LimbDivDigit(r, b, x - 1, m)
     ELSE LET rem == LimbSubFrom(r, p, 1, 0)
          IN IF x < 9 /\ LimbCmp(rem, b, m) >= 0 THEN LimbDivDigit(r, b, x + 1, m)
             ELSE [d |-> x, r |-> rem]

\* long division by a divisor of m - 1 limbs; the remainder r has m limbs
RECURSIVE NatDivBig(_, _, _, _, _, _)
NatDivBig(a, b, i, q, r, m) ==
  IF i > Len(a) THEN [q |-> StripZeros(q), r |-> FromLimbs(r)]
  ELSE LET r1  == LimbScale(r, 10, 1, a[i], m)
           rt  == (r1[m] * LimbBase + r1[m - 1]) * LimbBase + r1[m - 2]
           bt  == b[m - 1] * LimbBase + b[m - 2]
           dr  == LimbDivDigit(r1, b, rt \div bt, m)
       IN NatDivBig(a, b, i + 1, Append(q, dr.d), dr.r, m)

\* [q |-> a div b, r |-> a mod b] for b > 0 without leading zeros
NatDivMod(a_, b_) ==
  Val2(a_, b_, LAMBDA a, b :
    IF Len(b) <= 8 THEN NatDivSmall(a, DigitsValue(b, Len(b)), 1, <<>>, 0)
    ELSE Val(ToLimbs(b), LAMBDA bl :
           NatDivBig(a, Append(bl, 0), 1, <<>>, Zeros(Len(bl) + 1), Len(bl) + 1)))

(***************************************************************************)
(* decimal.Decimal                                                         *)
(***************************************************************************)
Prec == 15

Dec(s, c, e) == [sign |-> s, int |-> c, exp |-> e]

\* a raised decimal signal (traps are enabled): the operation has no result
InvalidOperation == [sign |-> 0, int |-> <<>>, exp |-> 1]
DivisionByZero   == [sign |-> 0, int |-> <<>>, exp |-> 2]
Raised(d) == d.int = <<>>

\* Decimal(str(n)) for an integer n >= 0
DecInt(n) == Dec(0, IntDigits(n), 0)

DecIsZero(d) == NatIsZero(d.int)
Negate(d_) == Val(d_, LAMBDA d : IF Raised(d) THEN d ELSE Dec(1 - d.sign, d.int, d.exp))

\* drop the last k digits of the coefficient c, rounding the kept part
\* (ROUND_HALF_UP, or ROUND_HALF_EVEN); k may exceed Len(c)
RoundDrop(c_, k, rounding) ==
  Val(c_, LAMBDA c :
    IF k <= 0 THEN c
    ELSE LET n    == Len(c)
             kept == IF k >= n THEN <<0>> ELSE SubSeq(c, 1, n - k)
             nxt  == IF k > n THEN 0 ELSE c[n - k + 1]
             rest == IF k > n THEN c ELSE SubSeq(c, n - k + 2, n)
             half == nxt = 5 /\ NatIsZero(rest)
             up   == IF rounding = "ROUND_HALF_EVEN" /\ half
                     THEN kept[Len(kept)] % 2 = 1
                     ELSE nxt >= 5
         IN IF up THEN NatAdd(kept, <<1>>) ELSE kept)

\* Decimal._fix: round to the context precision
Fix(d_, prec, rounding) ==
  Val(d_, LAMBDA d :
    IF Raised(d) \/ Len(d.int) <= prec THEN d
    ELSE Val(RoundDrop(d.int, Len(d.int) - prec, rounding), LAMBDA c :
           IF Len(c) > prec
           THEN Dec(d.sign, SubSeq(c, 1, prec), d.exp + Len(d.int) - prec + 1)
           ELSE Dec(d.sign, c, d.exp + Len(d.int) - prec)))

\* the coefficient of d written at exponent e <= d.exp
Aligned(d, e) == NatShift(d.int, d.exp - e)

\* numeric comparison: -1, 0, 1
DecCmp(a_, b_) ==
  Val2(a_, b_, LAMBDA a, b :
    Val2(Aligned(a, IF a.exp < b.exp THEN a.exp ELSE b.exp),
         Aligned(b, IF a.exp < b.exp THEN a.exp ELSE b.exp), LAMBDA x, y :
      LET sa == IF NatIsZero(x) THEN 0 ELSE a.sign
          sb == IF NatIsZero(y) THEN 0 ELSE b.sign
      IN IF sa # sb THEN (IF sa = 1 THEN -1 ELSE 1)
         ELSE IF sa = 0 THEN NatCmp(x, y) ELSE NatCmp(y, x)))

DecEq(a, b) == ~Raised(a) /\ ~Raised(b) /\ DecCmp(a, b) = 0

\* Decimal.__add__ in a context (prec, rounding)
AddCtx(a_, b_, prec, rounding) ==
  Val2(a_, b_, LAMBDA a, b :
    IF Raised(a) THEN a ELSE IF Raised(b) THEN b
    ELSE Val2(Aligned(a, IF a.exp < b.exp THEN a.exp ELSE b.exp),
              Aligned(b, IF a.exp < b.exp THEN a.exp ELSE b.exp), LAMBDA x, y :
           LET e == IF a.exp < b.exp THEN a.exp ELSE b.exp
           IN IF NatIsZero(x) /\ NatIsZero(y)
              THEN Dec(IF a.sign = 1 /\ b.sign = 1 THEN 1 ELSE 0, <<0>>, e)
              ELSE IF a.sign = b.sign
              THEN Fix(Dec(a.sign, NatAdd(x, y), e), prec, rounding)
              ELSE Val(NatCmp(x, y), LAMBDA c :
                     IF c = 0 THEN Dec(0, <<0>>, e)
                     ELSE IF c > 0
                     THEN Fix(Dec(a.sign, NatSub(x, y), e), prec, rounding)
                     ELSE Fix(Dec(b.sign, NatSub(y, x), e), prec, rounding))))

\* Decimal.__mul__ in a context
MulCtx(a_, b_, prec, rounding) ==
  Val2(a_, b_, LAMBDA a, b :
    IF Raised(a) THEN a ELSE IF Raised(b) THEN b
    ELSE LET s == IF a.sign = b.sign THEN 0 ELSE 1
         IN IF DecIsZero(a) \/ DecIsZero(b) THEN Dec(s, <<0>>, a.exp + b.exp)
            ELSE Fix(Dec(s, NatMul(a.int, b.int), a.exp + b.exp), prec, rounding))

RECURSIVE TrimExact(_, _, _)
\* an exact quotient is brought as close to the ideal exponent as possible
TrimExact(c, e, ideal) ==
  IF e < ideal /\ Len(c) > 1 /\ c[Len(c)] = 0
  THEN TrimExact(SubSeq(c, 1, Len(c) - 1), e + 1, ideal)
  ELSE [c |-> c, e |-> e]

\* Decimal.__truediv__ in a context
DivCtx(a_, b_, prec, rounding) ==
  Val2(a_, b_, LAMBDA a, b :
    IF Raised(a) THEN a ELSE IF Raised(b) THEN b
    ELSE LET s == IF a.sign = b.sign THEN 0 ELSE 1
             shift == Len(b.int) - Len(a.int) + prec + 1
             e     == a.exp - b.exp - shift
         IN IF DecIsZero(b)
            THEN (IF DecIsZero(a) THEN InvalidOperation ELSE DivisionByZero)
            ELSE IF DecIsZero(a) THEN Dec(s, <<0>>, a.exp - b.exp)
            ELSE Val(IF shift >= 0
                     THEN NatDivMod(NatShift(a.int, shift), b.int)
                     ELSE NatDivMod(a.int, NatShift(b.int, -shift)), LAMBDA qr :
                   IF ~NatIsZero(qr.r)
                   THEN Fix(Dec(s, IF qr.q[Len(qr.q)] % 5 = 0
                                   THEN NatAdd(qr.q, <<1>>) ELSE qr.q, e),
                            prec, rounding)
                   ELSE Val(TrimExact(qr.q, e, a.exp - b.exp), LAMBDA t :
                          Fix(Dec(s, t.c, t.e), prec, rounding))))

\* a division that yields 0.00 for a zero divisor
Div_ZeroForZeroDivisor(a, b) ==
  IF ~Raised(a) /\ ~Raised(b) /\ DecIsZero(b) THEN Dec(0, <<0>>, -2)
  ELSE DivCtx(a, b, Prec, "ROUND_HALF_UP")

\* the arithmetic of the module's context: prec 15, ROUND_HALF_UP
Add(a, b) == AddCtx(a, b, Prec, "ROUND_HALF_UP")
Sub(a, b) == AddCtx(a, Negate(b), Prec, "ROUND_HALF_UP")
Mul(a, b) == MulCtx(a, b, Prec, "ROUND_HALF_UP")
Div(a, b) == DivCtx(a, b, Prec, "ROUND_HALF_UP")

\* Decimal.quantize(Decimal("0.01")): InvalidOperation when the result
\* needs more than prec digits
Quantize(d_) ==
  Val(d_, LAMBDA d :
    IF Raised(d) THEN d
    ELSE IF DecIsZero(d) THEN Dec(d.sign, <<0>>, -2)
    ELSE IF Len(d.int) + d.exp + 2 > Prec THEN InvalidOperation
    ELSE Val(IF d.exp >= -2 THEN NatShift(d.int, d.exp + 2)
             ELSE RoundDrop(d.int, -2 - d.exp, "ROUND_HALF_UP"), LAMBDA c :
           IF Len(c) > Prec THEN InvalidOperation ELSE Dec(d.sign, c, -2)))

\* a Decimal from an amount of cents, as Decimal("12.34")
Cents(n) == Dec(0, IntDigits(n), -2)

\* the largest power of two not above n (n >= 1)
RECURSIVE TopBit(_)
TopBit(n) == IF n < 2 THEN 1 ELSE 2 * TopBit(n \div 2)

\* left-to-right square and multiply below the top bit of n, every product
\* rounded half-even to the working precision
RECURSIVE PowBits(_, _, _, _, _)
PowBits(result, base, n, bit, wprec) ==
  IF bit \div 2 = 0 THEN result
  ELSE Val(MulCtx(result, result, wprec, "ROUND_HALF_EVEN"), LAMBDA sq :
         Val(IF (n \div (bit \div 2)) % 2 = 1
             THEN MulCtx(sq, base, wprec, "ROUND_HALF_EVEN") ELSE sq, LAMBDA r :
           PowBits(r, base, n, bit \div 2, wprec)))

\* base ** Decimal(str(n)) for a positive base and an integer n >= 0: 1 for
\* n = 0; a one padded with zeros when the base equals one; otherwise the
\* integer power at Prec + digits(n) + 2 digits, then rounded to the context
Pow(base_, n) ==
  Val(base_, LAMBDA base :
    IF Raised(base) THEN base
    ELSE IF n = 0 THEN Dec(0, <<1>>, 0)
    ELSE IF DecCmp(base, Dec(0, <<1>>, 0)) = 0
    THEN LET shift == IF n * (0 - base.exp) > Prec - 1 THEN Prec - 1
                      ELSE n * (0 - base.exp)
         IN Dec(0, <<1>> \o Zeros(shift), 0 - shift)
    ELSE Fix(PowBits(base, base, n, TopBit(n), Prec + Len(IntDigits(n)) + 2),
             Prec, "ROUND_HALF_UP"))

(***************************************************************************)
(* datetime.date, as the proleptic Gregorian ordinal (date.toordinal()).   *)
(***************************************************************************)
IsLeap(y) == y % 4 = 0 /\ (y % 100 # 0 \/ y % 400 = 0)

DaysInMonth(y, m) ==
  IF m = 2 THEN (IF IsLeap(y) THEN 29 ELSE 28)
  ELSE IF m \in {4, 6, 9, 11} THEN 30 ELSE 31

DaysBeforeYear(y) ==
  (y - 1) * 365 + ((y - 1) \div 4) - ((y - 1) \div 100) + ((y - 1) \div 400)

RECURSIVE DaysBeforeMonth(_, _)
DaysBeforeMonth(y, m) ==
  IF m = 1 THEN 0 ELSE DaysBeforeMonth(y, m - 1) + DaysInMonth(y, m - 1)

\* date(y, m, d)
Date(y, m, d) == DaysBeforeYear(y) + DaysBeforeMonth(y, m) + d

YearOf(n_) ==
  Val(n_, LAMBDA n :
    CHOOSE y \in (n \div 366)..((n \div 365) + 1) :
      DaysBeforeYear(y) < n /\ n <= DaysBeforeYear(y + 1))

MonthOf(n_) ==
  Val2(n_, YearOf(n_), LAMBDA n, y :
    CHOOSE m \in 1..12 :
      /\ Date(y, m, 1) <= n
      /\ n <= Date(y, m, DaysInMonth(y, m)))

DayOf(n_) ==
  Val(n_, LAMBDA n :
    Val2(YearOf(n), MonthOf(n), LAMBDA y, m : n - Date(y, m, 1) + 1))

\* date.weekday(): Monday is 0, Sunday is 6
Weekday(n) == (n + 6) % 7

\* date + relativedelta(months=k): the day is clipped to the target month
AddMonths(n_, k) ==
  Val(n_, LAMBDA n :
    Val2(YearOf(n), MonthOf(n) + k - 1, LAMBDA y0, m0 :
      Val2(DayOf(n), DaysInMonth(y0 + (m0 \div 12), (m0 % 12) + 1), LAMBDA d, last :
        Date(y0 + (m0 \div 12), (m0 % 12) + 1, IF d < last THEN d ELSE last))))

\* date.replace(day=d) raises ValueError when the month has no day d
ReplaceDayRaises(n_, d) ==
  Val(n_, LAMBDA n : d > DaysInMonth(YearOf(n), MonthOf(n)))
ReplaceDay(n_, d) ==
  Val(n_, LAMBDA n : Val2(YearOf(n), MonthOf(n), LAMBDA y, m : Date(y, m, d)))

\* date + relativedelta(day=31): the last day of the month
LastDayOfMonth(n_) ==
  Val(n_, LAMBDA n :
    Val2(YearOf(n), MonthOf(n), LAMBDA y, m : Date(y, m, DaysInMonth(y, m))))

(***************************************************************************)
(* PaymentCalendar                                                          *)
(***************************************************************************)
VARIABLES
  cal,    \* the PaymentCalendar object and the position in generate_schedule
  loan,   \* the loan object (either amortizer) and the position in its methods
  out     \* what the caller holds: schedule rows, totals, summary, exception

vars == <<cal, loan, out>>

Frequencies == {"1m", "3m", "6m"}

\* PaymentCalendar._frequency_to_days; 0 stands for the ValueError
FrequencyToDays(f) ==
  IF f = "1m" THEN 30 ELSE IF f = "3m" THEN 90 ELSE IF f = "6m" THEN 180 ELSE 0

\* the relativedelta of generate_schedule, in months
DeltaMonths(f) == IF f = "1m" THEN 1 ELSE IF f = "3m" THEN 3 ELSE 6

\* variant: Saturday taken for a business day
IsNonBusinessDay_SundayOnly(d, hol) == Weekday(d) > 5 \/ d \in hol

\* "scheduled_date.weekday() >= 5 or scheduled_date in self.holiday_calendar"
IsNonBusinessDay(d, hol) == Weekday(d) >= 5 \/ d \in hol

\* the while loop of generate_schedule: the first business day from d on
RECURSIVE NextBusinessDay(_, _)
NextBusinessDay(d, hol) ==
  IF IsNonBusinessDay(d, hol) THEN NextBusinessDay(d + 1, hol) ELSE d

\* variant: the day of the month is never set back to the payment day
ScheduledDate_NoReplace(base, f, day) == AddMonths(base, DeltaMonths(f))

\* the nominal date of a period: one interval after the nominal base date,
\* on the payment day of the start date, or the month's last day
ScheduledDate(base, f, day) ==
  Val(AddMonths(base, DeltaMonths(f)), LAMBDA sd :
    IF ReplaceDayRaises(sd, day) THEN LastDayOfMonth(sd) ELSE ReplaceDay(sd, day))

\* variant: the cursor advances from the adjusted payment date
NextNominalBase_FromPaid(base, f, paid) == AddMonths(paid, DeltaMonths(f))

\* variant: the cursor never advances
NextNominalBase_Stuck(base, f, paid) == base

\* nominal_base_date += delta
NextNominalBase(base, f, paid) == AddMonths(base, DeltaMonths(f))

\* the number of iterations of the for loop
NumPeriods(c) == (c.term_in_months * 30) \div FrequencyToDays(c.payment_frequency)

\* variant: every assignment adds an entry instead of replacing the one of key i
Put_Append(d, i, v) == Append(d, v)

\* dict assignment d[i] = v, for a dict with the keys 1..Len(d)
Put(d, i, v) == IF i <= Len(d) THEN [d EXCEPT ![i] = v] ELSE Append(d, v)

\* PaymentCalendar.__init__
NewCalendar(start, term, f, hol) ==
  [start_date |-> start, term_in_months |-> term, payment_frequency |-> f,
   holiday_calendar |-> hol,
   payment_dates |-> <<>>, accrual_days |-> <<>>, accrual_date_ranges |-> <<>>,
   turkish_banking_accrual_days |-> <<>>,
   anchors |-> <<>>,             \* scheduled_date before the while loop, per period
   i |-> 0, nominal_base_date |-> start, pc |-> "new",
   runs |-> 0]                   \* completed calls of generate_schedule after the first

\* variant: an unsupported frequency yields an empty schedule
CalBegin_NoFrequencyTest(c_) ==
  Val(c_, LAMBDA c :
    [c EXCEPT !.nominal_base_date = c.start_date,
              !.i = 1,
              !.pc = IF c.payment_frequency \in Frequencies /\ NumPeriods(c) >= 1
                     THEN "loop" ELSE "done"])

\* entry of generate_schedule: the frequency test, then the loop set-up
CalBegin(c_) ==
  Val(c_, LAMBDA c :
    IF c.payment_frequency \notin Frequencies
    THEN [c EXCEPT !.pc = "ValueError"]
    ELSE [c EXCEPT !.nominal_base_date = c.start_date,
                   !.i = 1,
                   !.pc = IF NumPeriods(c) >= 1 THEN "loop" ELSE "done"])

\* variant: accrual starts at the previous nominal date
AccrualStart_Nominal(c, i) == IF i > 1 THEN c.anchors[i - 1] ELSE c.start_date

\* accrual_start of period i
AccrualStart(c, i) == IF i > 1 THEN c.payment_dates[i - 1] ELSE c.start_date

\* one iteration of the for loop of generate_schedule
CalIteration(c_) ==
  Val(c_, LAMBDA c :
    Val(ScheduledDate(c.nominal_base_date, c.payment_frequency, DayOf(c.start_date)),
        LAMBDA nominal :
      Val2(NextBusinessDay(nominal, c.holiday_calendar), AccrualStart(c, c.i),
           LAMBDA scheduled_date, accrual_start :
        LET i == c.i
            f == c.payment_frequency
            days == scheduled_date - accrual_start
        IN [c EXCEPT
              !.payment_dates = Put(@, i, scheduled_date),
              !.accrual_days  = Put(@, i, days),
              !.accrual_date_ranges = Put(@, i, [d \in 1..days |-> accrual_start + d - 1]),
              !.turkish_banking_accrual_days = Put(@, i, FrequencyToDays(f)),
              !.anchors = Put(@, i, nominal),
              !.nominal_base_date = NextNominalBase(c.nominal_base_date, f, scheduled_date),
              !.i  = i + 1,
              !.pc = IF i + 1 > NumPeriods(c) THEN "done" ELSE "loop"])))

\* generate_schedule run to its end
RECURSIVE CalRun(_)
CalRun(c) == IF c.pc = "loop" THEN Val(CalIteration(c), CalRun) ELSE c

GenerateSchedule(c) == Val(CalBegin(c), CalRun)

(***************************************************************************)
(* The calendar on its own: inputs, and generate_schedule step by step.    *)
(***************************************************************************)
MaxTerm == 12

StartDates ==
  {Date(2024, 1, 10), Date(2024, 1, 31), Date(2023, 11, 30),
   Date(2024, 3, 10), Date(2024, 7, 30)}

\* public holidays of Turkey falling in 2024 and 2025
TurkeyHolidays ==
  {Date(2024, 1, 1), Date(2024, 4, 23), Date(2024, 5, 1), Date(2024, 5, 19),
   Date(2024, 7, 15), Date(2024, 8, 30), Date(2024, 10, 29),
   Date(2025, 1, 1), Date(2025, 4, 23), Date(2025, 5, 1), Date(2025, 5, 19),
   Date(2025, 7, 15), Date(2025, 8, 30), Date(2025, 10, 29)}
    \cup (Date(2024, 4, 10)..Date(2024, 4, 12))
    \cup (Date(2024, 6, 16)..Date(2024, 6, 19))
    \cup (Date(2025, 3, 30)..Date(2025, 4, 1))
    \cup (Date(2025, 6, 6)..Date(2025, 6, 9))

\* a calendar with one closure longer than a month
LongClosure == Date(2024, 2, 10)..Date(2024, 3, 12)

HolidayCalendars == {{}, TurkeyHolidays, LongClosure}

PaymentFrequencies == Frequencies \cup {"12m"}

\* holidays.Turkey() for "Turkey", holidays.CountryHoliday(country) otherwise
CountryHolidays(country) ==
  IF country = "Turkey" THEN TurkeyHolidays ELSE LongClosure

NoLoan == [pc |-> "none"]
NoOut  == [pc |-> "none"]

InitCal ==
  /\ \E start \in StartDates, term \in 0..MaxTerm,
        f \in PaymentFrequencies, hol \in HolidayCalendars :
       cal = NewCalendar(start, term, f, hol)
  /\ loan = NoLoan
  /\ out = NoOut

\* generate_schedule up to the for loop
CalGenerateBegin ==
  /\ cal.pc = "new"
  /\ cal' = CalBegin(cal)
  /\ UNCHANGED <<loan, out>>

\* one period of generate_schedule
CalGenerateStep ==
  /\ cal.pc = "loop"
  /\ cal' = CalIteration(cal)
  /\ UNCHANGED <<loan, out>>

NextCal == CalGenerateBegin \/ CalGenerateStep

SpecCal == InitCal /\ [][NextCal]_vars

\* the periods generated so far
Periods == 1..Len(cal.payment_dates)

\* PaymentCalendar.get_total_accrual_days on the generated periods
RECURSIVE SumTo(_, _)
SumTo(s, n) == IF n = 0 THEN 0 ELSE SumTo(s, n - 1) + s[n]

TotalAccrualDays(c) == SumTo(c.accrual_days, Len(c.accrual_days))

\* months since year 0 of the month a date lies in
MonthIndex(d) == YearOf(d) * 12 + MonthOf(d) - 1

\* Saturday, Sunday or a holiday of the calendar under generation
Closed(d) == Weekday(d) \in {5, 6} \/ d \in cal.holiday_calendar

\* C6: nominal-cursor non-drift.  The nominal anchor of every period is the
\* same date under every holiday calendar: a run with the same start date,
\* term and frequency but another holiday predicate has identical nominal
\* anchors, however far the payment dates were shifted.
C6_NominalCursorNonDrift ==
  \A hol \in HolidayCalendars :
    LET other == GenerateSchedule(NewCalendar(cal.start_date, cal.term_in_months,
                                              cal.payment_frequency, hol))
    IN \A k \in Periods : cal.anchors[k] = other.anchors[k]

\* a holiday on the nominal anchor shifted a payment date, and the next
\* period has been generated
C6_Witness ==
  \E k \in Periods :
    /\ k + 1 \in Periods
    /\ cal.anchors[k] \in cal.holiday_calendar
    /\ cal.payment_dates[k] > cal.anchors[k]

\* C7: every payment date is the first business day on or after its nominal
\* anchor: not a Saturday, Sunday or holiday, not before the anchor, every
\* day from the anchor up to it is a non-business day, and it is the anchor
\* when the anchor is a business day.
C7_FirstBusinessDay ==
  \A k \in Periods :
    LET a == cal.anchors[k]
        p == cal.payment_dates[k]
    IN /\ p >= a
       /\ ~Closed(p)
       /\ \A d \in a..(p - 1) : Closed(d)
       /\ (~Closed(a) => p = a)

\* a payment date moved over a holiday and a weekend
C7_Witness ==
  \E k \in Periods :
    /\ cal.payment_dates[k] >= cal.anchors[k] + 3
    /\ cal.anchors[k] \in cal.holiday_calendar

\* the longest run of consecutive non-business days of the holiday calendar
LongestClosure(hol) ==
  LET runs == {2} \cup {NextBusinessDay(d, hol) - d : d \in hol}
  IN CHOOSE r \in runs : \A x \in runs : x <= r

\* the gaps between consecutive nominal dates of the cadence of the calendar
CadenceGaps(c) ==
  {AddMonths(c.start_date, (k + 1) * DeltaMonths(c.payment_frequency))
     - AddMonths(c.start_date, k * DeltaMonths(c.payment_frequency)) :
       k \in 1..(NumPeriods(c) - 1)}

\* C8: when every run of consecutive non-business days is shorter than the
\* gap between two consecutive nominal anchors, the payment dates are
\* strictly increasing, the first is later than the start date, and every
\* accrual_days is at least 1.
C8_StrictlyIncreasing ==
  (/\ cal.payment_frequency \in Frequencies
   /\ \A g \in CadenceGaps(cal) : LongestClosure(cal.holiday_calendar) < g)
  => \A k \in Periods :
       /\ cal.accrual_days[k] >= 1
       /\ cal.payment_dates[k] > cal.start_date
       /\ (k > 1 => cal.payment_dates[k] > cal.payment_dates[k - 1])

\* three periods generated under a calendar with holidays, one of them shifted
C8_Witness ==
  /\ cal.holiday_calendar = TurkeyHolidays
  /\ Len(cal.payment_dates) >= 3
  /\ \E k \in Periods : cal.payment_dates[k] > cal.anchors[k]

\* C9: accrual_days of a period is its payment date minus its accrual start,
\* the start date for period 1 and the previous (adjusted) payment date
\* after it; the accrual days sum to the last payment date minus the start
\* date; the accrual date range runs from the accrual start to the day
\* before the payment date.
C9_AccrualDays ==
  /\ \A k \in Periods :
       LET from == IF k = 1 THEN cal.start_date ELSE cal.payment_dates[k - 1]
           range == cal.accrual_date_ranges[k]
       IN /\ cal.accrual_days[k] = cal.payment_dates[k] - from
          /\ Len(range) = cal.accrual_days[k]
          /\ \A d \in 1..Len(range) : range[d] = from + d - 1
          /\ (range # <<>> => range[Len(range)] = cal.payment_dates[k] - 1)
  /\ (Periods # {} =>
        TotalAccrualDays(cal) = cal.payment_dates[Len(cal.payment_dates)] - cal.start_date)

\* a period after a shifted one: its accrual start is not the nominal anchor
C9_Witness ==
  \E k \in Periods :
    /\ k + 1 \in Periods
    /\ cal.payment_dates[k] > cal.anchors[k]
    /\ cal.accrual_days[k + 1] = cal.payment_dates[k + 1] - cal.payment_dates[k]

\* C10: the nominal anchor of period k lies in the month k frequency
\* intervals after the month of the start date, on the day of the month of
\* the start date or, in a shorter month, on its last day; a later, longer
\* month is back on the original day; no error is raised.
C10_AnchorDay ==
  /\ cal.payment_frequency \in Frequencies => cal.pc # "ValueError"
  /\ \A k \in Periods :
       LET a == cal.anchors[k]
           last == DaysInMonth(YearOf(a), MonthOf(a))
       IN /\ MonthIndex(a)
               = MonthIndex(cal.start_date) + k * DeltaMonths(cal.payment_frequency)
          /\ DayOf(a) = IF DayOf(cal.start_date) < last
                        THEN DayOf(cal.start_date) ELSE last

\* start on the 31st: an anchor clipped to a shorter month, a later one on
\* the 31st again
C10_Witness ==
  /\ DayOf(cal.start_date) = 31
  /\ \E k \in Periods, l \in Periods :
       /\ k < l
       /\ DayOf(cal.anchors[k]) < 31
       /\ DayOf(cal.anchors[l]) = 31

(***************************************************************************)
(* The amortizers.  EP_ is EqualPrincipalLoan, EI_ is EqualInstallmentLoan. *)
(* A loan is the object after __init__; pc says how the constructor ended:  *)
(* "constructed", or the exception it raised.                               *)
(***************************************************************************)
\* the name of the exception behind a raised decimal signal
SignalName(d) == IF d = DivisionByZero THEN "DivisionByZero" ELSE "InvalidOperation"

\* the arguments of a constructor call, before __init__ has run; country is
\* "Turkey" throughout, bsmv_rate is passed as a Decimal
LoanArgs(kind, principal, rate, commission, start, term, f, bsmv, variable) ==
  [kind |-> kind, pc |-> "new",
   principal |-> principal, monthly_interest_rate |-> rate,
   commission |-> commission, start_date |-> start, term |-> term,
   payment_frequency |-> f, bsmv_rate |-> bsmv, country |-> "Turkey",
   use_variable_accrual_days |-> variable,
   payment_dates |-> <<>>, num_payments |-> 0,
   actual_accrual_days |-> <<>>, fixed_accrual_days |-> <<>>,
   fixed_principal |-> Dec(0, <<0>>, -2), fixed_installment |-> Dec(0, <<0>>, -2)]

\* PaymentCalendar(start_date, term, payment_frequency, country) followed by
\* generate_schedule()
LoanCalendar(l) ==
  GenerateSchedule(NewCalendar(l.start_date, l.term, l.payment_frequency,
                               CountryHolidays(l.country)))

\* EqualPrincipalLoan.__init__
EP_init(l) ==
  Val(LoanCalendar(l), LAMBDA c :
    Val(Div(l.principal, DecInt(Len(c.payment_dates))), LAMBDA fixed_principal :
      LET n == Len(c.payment_dates)
          fixed_days == IF l.payment_frequency = "1m" THEN 30
                        ELSE IF l.payment_frequency = "3m" THEN 90 ELSE 180
      IN IF c.pc = "ValueError" THEN [l EXCEPT !.pc = "ValueError"]
         ELSE IF Raised(fixed_principal)
         THEN [l EXCEPT !.pc = SignalName(fixed_principal),
                        !.payment_dates = c.payment_dates, !.num_payments = n,
                        !.actual_accrual_days = c.accrual_days,
                        !.fixed_accrual_days = [k \in 1..n |-> fixed_days]]
         ELSE [l EXCEPT !.pc = "constructed",
                        !.payment_dates = c.payment_dates, !.num_payments = n,
                        !.actual_accrual_days = c.accrual_days,
                        !.fixed_accrual_days = [k \in 1..n |-> fixed_days],
                        !.fixed_principal = fixed_principal]))

\* EqualInstallmentLoan.__init__: the fixed installment T from the period
\* rate with BSMV, for n payments
EI_fixed_installment(l, n) ==
  Val(Div(DecInt(FrequencyToDays(l.payment_frequency)), DecInt(30)),
      LAMBDA period_multiplier :
    Val(Mul(l.monthly_interest_rate, period_multiplier), LAMBDA period_rate :
      Val(Add(period_rate, Mul(period_rate, l.bsmv_rate)), LAMBDA period_rate_prime :
        Val(Pow(Add(Dec(0, <<1, 0>>, -1), period_rate_prime), n),
            LAMBDA one_plus_r_pow_n :
          Div(Mul(Mul(l.principal, period_rate_prime), one_plus_r_pow_n),
              Sub(one_plus_r_pow_n, Dec(0, <<1, 0>>, -1)))))))

\* EqualInstallmentLoan.__init__
EI_init(l) ==
  Val(LoanCalendar(l), LAMBDA c :
    IF c.pc = "ValueError" THEN [l EXCEPT !.pc = "ValueError"]
    ELSE Val(EI_fixed_installment(l, Len(c.payment_dates)), LAMBDA fixed_installment :
           LET n == Len(c.payment_dates)
           IN IF Raised(fixed_installment)
              THEN [l EXCEPT !.pc = SignalName(fixed_installment),
                             !.payment_dates = c.payment_dates, !.num_payments = n,
                             !.fixed_accrual_days = c.turkish_banking_accrual_days]
              ELSE [l EXCEPT !.pc = "constructed",
                             !.payment_dates = c.payment_dates, !.num_payments = n,
                             !.fixed_accrual_days = c.turkish_banking_accrual_days,
                             !.fixed_installment = fixed_installment]))

\* a schedule row
Row(k, date, days, principal_payment, interest, commission, bsmv, installment, remaining) ==
  [installment_number |-> k, payment_date |-> date, accrual_days |-> days,
   principal_payment |-> principal_payment, interest_payment |-> interest,
   commission_payment |-> commission, bsmv |-> bsmv,
   installment_amount |-> installment, remaining_principal |-> remaining]

\* an exception was raised while the row was computed
RowRaised(row_) ==
  Val(row_, LAMBDA row :
  \/ Raised(row.principal_payment) \/ Raised(row.interest_payment)
  \/ Raised(row.commission_payment) \/ Raised(row.bsmv)
  \/ Raised(row.installment_amount) \/ Raised(row.remaining_principal))

\* the state of a calculate_schedule call: the rows appended so far, the
\* running remaining_principal and the loop variable k
Call(pc, schedule, remaining, k) ==
  [pc |-> pc, schedule |-> schedule, remaining_principal |-> remaining, k |-> k,
   totals |-> <<>>, summary |-> <<>>,
   calls |-> 0]                  \* calls of calculate_schedule after the first

\* variant: the commission row is emitted whatever the commission is
ScheduleBegin_AlwaysRow(l, row_) ==
  Val(row_, LAMBDA row :
    IF RowRaised(row) THEN Call("InvalidOperation", <<>>, l.principal, 1)
    ELSE Call(IF l.num_payments >= 1 THEN "rows" ELSE "returned",
              <<row>>, l.principal, 1))

\* the start of calculate_schedule up to the loop: the commission row
ScheduleBegin(l, row_) ==
  IF DecCmp(l.commission, Dec(0, <<0>>, 0)) > 0
  THEN Val(row_, LAMBDA row :
         IF RowRaised(row) THEN Call("InvalidOperation", <<>>, l.principal, 1)
         ELSE Call(IF l.num_payments >= 1 THEN "rows" ELSE "returned",
                   <<row>>, l.principal, 1))
  ELSE Call(IF l.num_payments >= 1 THEN "rows" ELSE "returned", <<>>, l.principal, 1)

\* one iteration of the loop of calculate_schedule: the row is appended and
\* the running remaining principal replaced
ScheduleStep(l, o, row_, remaining_) ==
  Val2(row_, remaining_, LAMBDA row, remaining :
    IF RowRaised(row) \/ Raised(remaining) THEN [o EXCEPT !.pc = "InvalidOperation"]
    ELSE [o EXCEPT !.pc = IF o.k = l.num_payments THEN "returned" ELSE "rows",
                   !.schedule = Append(o.schedule, row),
                   !.remaining_principal = remaining,
                   !.k = o.k + 1])

\* EqualPrincipalLoan.calculate_schedule: the commission row
EP_commission_row(l) ==
  Val(Quantize(Mul(l.principal, l.commission)), LAMBDA commission_amount :
    Val(Quantize(Mul(commission_amount, l.bsmv_rate)), LAMBDA commission_bsmv :
      Row(0, l.start_date, 0, Dec(0, <<0>>, -2), Dec(0, <<0>>, -2),
          commission_amount, commission_bsmv,
          Quantize(Add(commission_amount, commission_bsmv)),
          Quantize(l.principal))))

\* variant: the monthly rate whatever the frequency and the accrual mode
EP_period_rate_Monthly(l, k) == l.monthly_interest_rate

\* variant: the rate of the actual accrual days whatever the accrual mode
EP_period_rate_Actual(l, k) ==
  Mul(l.monthly_interest_rate, Div(DecInt(l.actual_accrual_days[k]), DecInt(30)))

\* EqualPrincipalLoan.calculate_schedule: the period rate of row k
EP_period_rate(l, k) ==
  IF l.use_variable_accrual_days
  THEN Mul(l.monthly_interest_rate, Div(DecInt(l.actual_accrual_days[k]), DecInt(30)))
  ELSE IF l.payment_frequency = "1m" THEN l.monthly_interest_rate
  ELSE IF l.payment_frequency = "3m" THEN Mul(l.monthly_interest_rate, DecInt(3))
  ELSE Mul(l.monthly_interest_rate, DecInt(6))

\* EqualPrincipalLoan.calculate_schedule: the installment of a regular row
EP_installment(fixed_principal, interest_payment, bsmv) ==
  Quantize(Add(Add(fixed_principal, interest_payment), bsmv))

\* the decrement by the fixed principal rounded to cents
EP_next_remaining_Rounded(remaining_principal, fixed_principal) ==
  Sub(remaining_principal, Quantize(fixed_principal))

\* the running remaining principal left as it is
EP_next_remaining_Kept(remaining_principal, fixed_principal) == remaining_principal

\* EqualPrincipalLoan.calculate_schedule: "remaining_principal -= self.fixed_principal"
EP_next_remaining(remaining_principal, fixed_principal) ==
  Sub(remaining_principal, fixed_principal)

\* EqualPrincipalLoan.calculate_schedule: regular row k
EP_row(l, k, remaining_principal) ==
  Val(Quantize(Mul(remaining_principal, EP_period_rate(l, k))), LAMBDA interest_payment :
    Val(Quantize(Mul(interest_payment, l.bsmv_rate)), LAMBDA bsmv :
      Row(k, l.payment_dates[k],
          IF l.use_variable_accrual_days THEN l.actual_accrual_days[k]
          ELSE l.fixed_accrual_days[k],
          Quantize(l.fixed_principal), interest_payment, Dec(0, <<0>>, -2), bsmv,
          EP_installment(l.fixed_principal, interest_payment, bsmv),
          Quantize(Sub(remaining_principal, l.fixed_principal)))))

\* EqualPrincipalLoan.calculate_schedule up to the loop
EP_calculate_schedule_begin(l) == ScheduleBegin(l, EP_commission_row(l))

\* EqualPrincipalLoan.calculate_schedule: one iteration of the loop
EP_calculate_schedule_step(l, o) ==
  ScheduleStep(l, o, EP_row(l, o.k, o.remaining_principal),
               EP_next_remaining(o.remaining_principal, l.fixed_principal))

\* EqualPrincipalLoan.calculate_schedule run to its end
RECURSIVE EP_calculate_schedule_run(_, _)
EP_calculate_schedule_run(l, o) ==
  IF o.pc = "rows"
  THEN Val(EP_calculate_schedule_step(l, o), LAMBDA next : EP_calculate_schedule_run(l, next))
  ELSE o

EP_calculate_schedule(l) ==
  Val(EP_calculate_schedule_begin(l), LAMBDA o : EP_calculate_schedule_run(l, o))

\* EqualInstallmentLoan.calculate_schedule: the commission row
EI_commission_row(l) ==
  Val(Quantize(Mul(l.principal, l.commission)), LAMBDA commission_amount :
    Val(Quantize(Mul(commission_amount, l.bsmv_rate)), LAMBDA commission_bsmv :
      Row(0, l.start_date, 0, Dec(0, <<0>>, -2), Dec(0, <<0>>, -2),
          commission_amount, commission_bsmv,
          Quantize(Add(commission_amount, commission_bsmv)),
          Quantize(l.principal))))

\* EqualInstallmentLoan.calculate_schedule: the period rate
EI_period_rate(l) ==
  IF l.payment_frequency = "1m" THEN l.monthly_interest_rate
  ELSE IF l.payment_frequency = "3m" THEN Mul(l.monthly_interest_rate, DecInt(3))
  ELSE Mul(l.monthly_interest_rate, DecInt(6))

\* EqualInstallmentLoan.calculate_schedule: the installment of a regular row
EI_installment(principal_payment, interest_payment, bsmv) ==
  Quantize(Add(Add(principal_payment, interest_payment), bsmv))

\* the principal paid as the installment less the interest alone
EI_principal_payment_IgnoringBsmv(l, interest_payment, bsmv) ==
  Quantize(Sub(l.fixed_installment, interest_payment))

\* variant: the principal part kept unrounded
EI_principal_payment_Unrounded(l, interest_payment, bsmv) ==
  Sub(Sub(l.fixed_installment, interest_payment), bsmv)

\* EqualInstallmentLoan.calculate_schedule: the principal part of row k
EI_principal_payment(l, interest_payment, bsmv) ==
  Quantize(Sub(Sub(l.fixed_installment, interest_payment), bsmv))

\* EqualInstallmentLoan.calculate_schedule: regular row k
EI_row(l, k, remaining_principal) ==
  Val(Quantize(Mul(remaining_principal, EI_period_rate(l))), LAMBDA interest_payment :
    Val(Quantize(Mul(interest_payment, l.bsmv_rate)), LAMBDA bsmv :
      Val(EI_principal_payment(l, interest_payment, bsmv), LAMBDA principal_payment :
        Row(k, l.payment_dates[k], l.fixed_accrual_days[k],
            principal_payment, interest_payment, Dec(0, <<0>>, -2), bsmv,
            EI_installment(principal_payment, interest_payment, bsmv),
            Quantize(Sub(remaining_principal, principal_payment))))))

\* EqualInstallmentLoan.calculate_schedule up to the loop
EI_calculate_schedule_begin(l) == ScheduleBegin(l, EI_commission_row(l))

\* EqualInstallmentLoan.calculate_schedule: one iteration of the loop;
\* "remaining_principal -= principal_payment"
EI_calculate_schedule_step(l, o) ==
  Val(EI_row(l, o.k, o.remaining_principal), LAMBDA row :
    ScheduleStep(l, o, row, Sub(o.remaining_principal, row.principal_payment)))

\* EqualInstallmentLoan.calculate_schedule run to its end
RECURSIVE EI_calculate_schedule_run(_, _)
EI_calculate_schedule_run(l, o) ==
  IF o.pc = "rows"
  THEN Val(EI_calculate_schedule_step(l, o), LAMBDA next : EI_calculate_schedule_run(l, next))
  ELSE o

EI_calculate_schedule(l) ==
  Val(EI_calculate_schedule_begin(l), LAMBDA o : EI_calculate_schedule_run(l, o))

\* the accumulators of the loops over a schedule
Sums(commission, bsmv, installments, interest, weighted_days, principal_paid) ==
  [total_commission_payment |-> commission, total_bsmv |-> bsmv,
   total_installments |-> installments, total_interest |-> interest,
   total_weighted_days |-> weighted_days, total_principal_paid |-> principal_paid]

ZeroSums ==
  Sums(Dec(0, <<0>>, -2), Dec(0, <<0>>, -2), Dec(0, <<0>>, -2),
       Dec(0, <<0>>, -2), Dec(0, <<0>>, -2), Dec(0, <<0>>, -2))

\* the loop of EqualPrincipalLoan.get_totals over rows i..
RECURSIVE EP_totals_loop(_, _, _)
EP_totals_loop(schedule, i, t_) ==
  IF i > Len(schedule) THEN t_
  ELSE Val2(t_, Add(t_.total_bsmv, schedule[i].bsmv), LAMBDA t, b :
         LET row == schedule[i]
         IN EP_totals_loop(schedule, i + 1,
            IF row.installment_number = 0
            THEN [t EXCEPT !.total_bsmv = b,
                           !.total_commission_payment =
                              Add(t.total_commission_payment, row.installment_amount)]
            ELSE [t EXCEPT !.total_bsmv = b,
                           !.total_interest = Add(t.total_interest, row.interest_payment),
                           !.total_installments =
                              Add(t.total_installments, row.installment_amount)]))

\* EqualPrincipalLoan.get_totals
EP_get_totals(schedule) ==
  Val(EP_totals_loop(schedule, 1, ZeroSums), LAMBDA t :
     [total_loan_cost |-> Quantize(Add(t.total_installments, t.total_commission_payment)),
      total_interest_paid |-> Quantize(t.total_interest),
      total_bsmv_paid |-> Quantize(t.total_bsmv),
      total_installments_paid |-> Quantize(t.total_installments),
      total_commission_paid |-> Quantize(t.total_commission_payment)])

\* the loop of EqualInstallmentLoan.get_totals over rows i..
RECURSIVE EI_totals_loop(_, _, _)
EI_totals_loop(schedule, i, t_) ==
  IF i > Len(schedule) THEN t_
  ELSE Val2(t_, Add(t_.total_bsmv, schedule[i].bsmv), LAMBDA t, b :
         LET row == schedule[i]
         IN EI_totals_loop(schedule, i + 1,
            IF row.installment_number = 0
            THEN [t EXCEPT !.total_bsmv = b,
                           !.total_commission_payment =
                              Add(t.total_commission_payment, row.installment_amount)]
            ELSE [t EXCEPT !.total_bsmv = b,
                           !.total_interest = Add(t.total_interest, row.interest_payment),
                           !.total_installments =
                              Add(t.total_installments, row.installment_amount)]))

\* EqualInstallmentLoan.get_totals
EI_get_totals(schedule) ==
  Val(EI_totals_loop(schedule, 1, ZeroSums), LAMBDA t :
     [total_loan_cost |-> Quantize(Add(t.total_installments, t.total_commission_payment)),
      total_interest_paid |-> Quantize(t.total_interest),
      total_bsmv_paid |-> Quantize(t.total_bsmv),
      total_installments_paid |-> Quantize(t.total_installments),
      total_commission_paid |-> Quantize(t.total_commission_payment)])

\* the loop of EqualPrincipalLoan.calculate_average_maturity_and_all_in_rate:
\* row 0 adds its installment_amount to the commission and is skipped
RECURSIVE EP_maturity_loop(_, _, _, _)
EP_maturity_loop(schedule, start_date, i, t_) ==
  IF i > Len(schedule) THEN t_
  ELSE Val(t_, LAMBDA t :
       LET row == schedule[i]
           days_from_start == row.payment_date - start_date
           weighted == Mul(row.principal_payment, DecInt(days_from_start))
       IN EP_maturity_loop(schedule, start_date, i + 1,
            IF row.installment_number = 0
            THEN [t EXCEPT !.total_commission_payment =
                              Add(t.total_commission_payment, row.installment_amount)]
            ELSE [t EXCEPT !.total_weighted_days = Add(t.total_weighted_days, weighted),
                           !.total_principal_paid =
                              Add(t.total_principal_paid, row.principal_payment),
                           !.total_interest = Add(t.total_interest, row.interest_payment),
                           !.total_bsmv = Add(t.total_bsmv, row.bsmv)]))

\* EqualPrincipalLoan.calculate_average_maturity_and_all_in_rate: the years
\* are rounded to cents before the rate is computed
EP_calculate_average_maturity_and_all_in_rate(schedule, start_date, principal) ==
  Val(EP_maturity_loop(schedule, start_date, 1, ZeroSums), LAMBDA t :
    Val(Div(t.total_weighted_days, t.total_principal_paid), LAMBDA ortalama_vade_gun :
      Val2(Quantize(Div(ortalama_vade_gun, DecInt(365))),
           Add(Add(t.total_interest, t.total_bsmv), t.total_commission_payment),
           LAMBDA ortalama_vade_yil, toplam_maliyet :
        [ortalama_vade_yil |-> ortalama_vade_yil,
         all_in_rate_percent |->
           Quantize(Mul(Div(toplam_maliyet, Mul(ortalama_vade_yil, principal)),
                        DecInt(100))),
         toplam_maliyet |-> toplam_maliyet])))

\* the loop of EqualInstallmentLoan.calculate_average_maturity_and_all_in_rate:
\* row 0 adds its installment_amount to the commission and its bsmv to the bsmv
RECURSIVE EI_maturity_loop(_, _, _, _)
EI_maturity_loop(schedule, start_date, i, t_) ==
  IF i > Len(schedule) THEN t_
  ELSE Val(t_, LAMBDA t :
       LET row == schedule[i]
           days_from_start == DecInt(row.payment_date - start_date)
           weighted == Mul(days_from_start, row.principal_payment)
       IN EI_maturity_loop(schedule, start_date, i + 1,
            IF row.installment_number = 0
            THEN [t EXCEPT !.total_commission_payment =
                              Add(t.total_commission_payment, row.installment_amount),
                           !.total_bsmv = Add(t.total_bsmv, row.bsmv)]
            ELSE [t EXCEPT !.total_weighted_days = Add(t.total_weighted_days, weighted),
                           !.total_principal_paid =
                              Add(t.total_principal_paid, row.principal_payment),
                           !.total_interest = Add(t.total_interest, row.interest_payment),
                           !.total_bsmv = Add(t.total_bsmv, row.bsmv)]))

\* EqualInstallmentLoan.calculate_average_maturity_and_all_in_rate: the
\* years are rounded only in the returned value
EI_calculate_average_maturity_and_all_in_rate(schedule, start_date, principal) ==
  Val(EI_maturity_loop(schedule, start_date, 1, ZeroSums), LAMBDA t :
    Val(Div(t.total_weighted_days, t.total_principal_paid), LAMBDA ortalama_vade_gun :
      Val2(Div(ortalama_vade_gun, DecInt(365)),
           Add(Add(t.total_interest, t.total_bsmv), t.total_commission_payment),
           LAMBDA ortalama_vade_yil, toplam_maliyet :
        [ortalama_vade_yil |-> Quantize(ortalama_vade_yil),
         all_in_rate_percent |->
           Quantize(Mul(Div(toplam_maliyet, Mul(ortalama_vade_yil, principal)),
                        DecInt(100))),
         toplam_maliyet |-> toplam_maliyet])))

(***************************************************************************)
(* The loans: a constructor call, calculate_schedule row by row, then       *)
(* get_totals and calculate_average_maturity_and_all_in_rate on the rows.   *)
(***************************************************************************)
NoCal == [pc |-> "none"]

\* 0.00, 0.19, 100.00, 200.00, 120000.00 and 1099999999890.05
LoanPrincipals ==
  {Cents(0), Cents(19), Cents(10000), Cents(20000), Cents(12000000),
   Dec(0, <<1, 0, 9, 9, 9, 9, 9, 9, 9, 9, 8, 9, 0, 0, 5>>, -2)}

\* "0.02", "0.5" and "0"
LoanRates == {Dec(0, <<2>>, -2), Dec(0, <<5>>, -1), Dec(0, <<0>>, 0)}

\* "0" and "0.01"
LoanCommissions == {Dec(0, <<0>>, 0), Dec(0, <<1>>, -2)}

\* Decimal("0.05"), the default
BsmvRate == Dec(0, <<5>>, -2)

LoanTerms == {0, 3, MaxTerm - 1, MaxTerm}

LoanStartDates == {Date(2024, 1, 31)}

\* "Turkey", the default, and a country with other holidays
LoanCountries == {"Turkey", "Elsewhere"}

InitLoan ==
  /\ \E kind \in {"EP", "EI"}, principal \in LoanPrincipals, rate \in LoanRates,
        commission \in LoanCommissions, start \in LoanStartDates,
        term \in LoanTerms, f \in PaymentFrequencies, variable \in BOOLEAN,
        country \in LoanCountries :
       /\ kind = "EI" => ~variable
       /\ loan = [LoanArgs(kind, principal, rate, commission, start, term, f,
                           BsmvRate, variable) EXCEPT !.country = country]
  /\ cal = NoCal
  /\ out = NoOut

\* EqualPrincipalLoan(...)
EP_Construct ==
  /\ loan.pc = "new" /\ loan.kind = "EP"
  /\ loan' = EP_init(loan)
  /\ cal' = LoanCalendar(loan)
  /\ UNCHANGED out

\* EqualInstallmentLoan(...)
EI_Construct ==
  /\ loan.pc = "new" /\ loan.kind = "EI"
  /\ loan' = EI_init(loan)
  /\ cal' = LoanCalendar(loan)
  /\ UNCHANGED out

\* EqualPrincipalLoan.calculate_schedule is called
EP_ScheduleBegin ==
  /\ loan.pc = "constructed" /\ loan.kind = "EP" /\ out.pc = "none"
  /\ out' = EP_calculate_schedule_begin(loan)
  /\ UNCHANGED <<cal, loan>>

\* one regular row of EqualPrincipalLoan.calculate_schedule
EP_ScheduleStep ==
  /\ out.pc = "rows" /\ loan.kind = "EP"
  /\ out' = EP_calculate_schedule_step(loan, out)
  /\ UNCHANGED <<cal, loan>>

\* EqualInstallmentLoan.calculate_schedule is called
EI_ScheduleBegin ==
  /\ loan.pc = "constructed" /\ loan.kind = "EI" /\ out.pc = "none"
  /\ out' = EI_calculate_schedule_begin(loan)
  /\ UNCHANGED <<cal, loan>>

\* one regular row of EqualInstallmentLoan.calculate_schedule
EI_ScheduleStep ==
  /\ out.pc = "rows" /\ loan.kind = "EI"
  /\ out' = EI_calculate_schedule_step(loan, out)
  /\ UNCHANGED <<cal, loan>>

\* a returned dict, or the exception raised while computing it
Returned(o, field, value_, pc) ==
  Val(value_, LAMBDA value :
    IF \E f \in DOMAIN value : Raised(value[f])
    THEN [o EXCEPT !.pc = SignalName(CHOOSE v \in {value[f] : f \in DOMAIN value} : Raised(v))]
    ELSE [o EXCEPT ![field] = value, !.pc = pc])

\* EqualPrincipalLoan.get_totals(schedule)
EP_GetTotals ==
  /\ out.pc = "returned" /\ loan.kind = "EP"
  /\ out' = Returned(out, "totals", EP_get_totals(out.schedule), "totalled")
  /\ UNCHANGED <<cal, loan>>

\* EqualInstallmentLoan.get_totals(schedule)
EI_GetTotals ==
  /\ out.pc = "returned" /\ loan.kind = "EI"
  /\ out' = Returned(out, "totals", EI_get_totals(out.schedule), "totalled")
  /\ UNCHANGED <<cal, loan>>

\* EqualPrincipalLoan.calculate_average_maturity_and_all_in_rate(schedule)
EP_Summarize ==
  /\ out.pc = "totalled" /\ loan.kind = "EP"
  /\ out' = Returned(out, "summary",
               EP_calculate_average_maturity_and_all_in_rate(
                 out.schedule, loan.start_date, loan.principal), "summarized")
  /\ UNCHANGED <<cal, loan>>

\* EqualInstallmentLoan.calculate_average_maturity_and_all_in_rate(schedule)
EI_Summarize ==
  /\ out.pc = "totalled" /\ loan.kind = "EI"
  /\ out' = Returned(out, "summary",
               EI_calculate_average_maturity_and_all_in_rate(
                 out.schedule, loan.start_date, loan.principal), "summarized")
  /\ UNCHANGED <<cal, loan>>

\* the rows of a schedule before its regular rows: none, or the commission row
CommissionRows(schedule) ==
  SelectSeq(schedule, LAMBDA row : row.installment_number = 0)

\* EqualPrincipalLoan.calculate_average_maturity_and_all_in_rate called with a
\* schedule that has no regular rows
EP_SummarizeCommissionRows ==
  /\ out.pc = "totalled" /\ loan.kind = "EP"
  /\ out' = Returned(out, "summary",
               EP_calculate_average_maturity_and_all_in_rate(
                 CommissionRows(out.schedule), loan.start_date, loan.principal),
               "summarized")
  /\ UNCHANGED <<cal, loan>>

\* EqualInstallmentLoan.calculate_average_maturity_and_all_in_rate called with
\* a schedule that has no regular rows
EI_SummarizeCommissionRows ==
  /\ out.pc = "totalled" /\ loan.kind = "EI"
  /\ out' = Returned(out, "summary",
               EI_calculate_average_maturity_and_all_in_rate(
                 CommissionRows(out.schedule), loan.start_date, loan.principal),
               "summarized")
  /\ UNCHANGED <<cal, loan>>

NextLoan ==
  \/ EP_Construct \/ EI_Construct
  \/ EP_ScheduleBegin \/ EP_ScheduleStep
  \/ EI_ScheduleBegin \/ EI_ScheduleStep
  \/ EP_GetTotals \/ EI_GetTotals
  \/ EP_Summarize \/ EI_Summarize
  \/ EP_SummarizeCommissionRows \/ EI_SummarizeCommissionRows

SpecLoan == InitLoan /\ [][NextLoan]_vars

\* ---------------------------------------------------------------------------
\* Properties of the schedules, the totals and the summary

\* the sum of two Decimals without rounding
ExactPrec == 40
ExactAdd(a, b) == AddCtx(a, b, ExactPrec, "ROUND_HALF_UP")
ExactSub(a, b) == AddCtx(a, Negate(b), ExactPrec, "ROUND_HALF_UP")

\* principal_payment + interest_payment + bsmv + commission_payment of a row
RowComponents(row) ==
  ExactAdd(ExactAdd(ExactAdd(row.principal_payment, row.interest_payment), row.bsmv),
           row.commission_payment)

RECURSIVE ExactSumFrom(_, _)
\* the sum of the amounts i..Len(amounts)
ExactSumFrom(amounts, i) ==
  IF i > Len(amounts) THEN Dec(0, <<0>>, -2)
  ELSE ExactAdd(amounts[i], ExactSumFrom(amounts, i + 1))

\* the sum of F(row) over the rows of the schedule
ExactSum(schedule, F(_)) ==
  ExactSumFrom([i \in 1..Len(schedule) |-> F(schedule[i])], 1)

\* the rows of the schedule built so far
Schedule == IF out.pc = "none" THEN <<>> ELSE out.schedule

\* the rows of the schedule built so far, of the given amortizer
Rows(kind) == IF loan.kind = kind THEN Schedule ELSE <<>>

\* the position in the schedule of regular row k
RowIndex(schedule, k) ==
  IF Len(schedule) > 0 /\ schedule[1].installment_number = 0 THEN k + 1 ELSE k

\* the number of regular rows in the schedule
RegularRows(schedule) == Len(schedule) - RowIndex(schedule, 0)

\* the remaining principal reported by regular row k (row 0: the principal)
RemainingAt(schedule, k) ==
  IF k = 0 THEN Quantize(loan.principal)
  ELSE schedule[RowIndex(schedule, k)].remaining_principal

\* C1: every row of a schedule of either amortizer, the commission row included,
\* has installment_amount = principal_payment + interest_payment + bsmv +
\* commission_payment to the cent
C1_RowSum ==
  \A i \in 1..Len(Schedule) :
    DecEq(Schedule[i].installment_amount, RowComponents(Schedule[i]))

RECURSIVE Balance(_, _)
\* the principal less k times the unrounded principal / N, subtracted one
\* period at a time in the context of the calculation
Balance(l, k) ==
  IF k = 0 THEN l.principal ELSE Sub(Balance(l, k - 1), Div(l.principal, DecInt(l.num_payments)))

\* the principal is N times an amount of cents
CentExact(l) ==
  DecEq(MulCtx(Quantize(l.fixed_principal), DecInt(l.num_payments),
               ExactPrec, "ROUND_HALF_UP"), l.principal)

\* remaining_principal_k - (remaining_principal_(k-1) - principal_payment_k)
\* of regular row k
DecrementGap(schedule, k) ==
  ExactSub(RemainingAt(schedule, k),
           ExactSub(RemainingAt(schedule, k - 1),
                    schedule[RowIndex(schedule, k)].principal_payment))

RowCost(row) == ExactAdd(ExactAdd(row.interest_payment, row.bsmv), row.commission_payment)

\* C3: the numerator of the all-in rate of a finished schedule is the sum over
\* all rows of interest_payment + bsmv + commission_payment, each counted once
C3_AllInNumerator ==
  out.pc = "summarized" =>
    DecEq(out.summary.toplam_maliyet, ExactSum(out.schedule, RowCost))

\* two results are the same value or the same exception
SameDecimal(a, b) == IF Raised(a) \/ Raised(b) THEN a = b ELSE DecCmp(a, b) = 0

\* the two implementations of the summary return the same two figures
SameSummary(a, b) ==
  /\ SameDecimal(a.ortalama_vade_yil, b.ortalama_vade_yil)
  /\ SameDecimal(a.all_in_rate_percent, b.all_in_rate_percent)

\* C4: on the same rows, start_date and principal the two amortizers'
\* get_totals and calculate_average_maturity_and_all_in_rate return the same
\* totals, average maturity and all-in rate
C4_SameImplementations ==
  out.pc = "summarized" =>
    /\ EP_get_totals(out.schedule) = EI_get_totals(out.schedule)
    /\ SameSummary(
         EP_calculate_average_maturity_and_all_in_rate(
           out.schedule, loan.start_date, loan.principal),
         EI_calculate_average_maturity_and_all_in_rate(
           out.schedule, loan.start_date, loan.principal))

RowPrincipal(row) == row.principal_payment
RowCommission(row) == row.commission_payment
RowBsmv(row) == row.bsmv

\* C5: total_commission_paid is the sum of commission_payment over the rows and
\* total_bsmv_paid is the sum of bsmv over the rows
C5_ComponentTotals ==
  out.pc \in {"totalled", "summarized"} =>
    /\ DecEq(out.totals.total_commission_paid,
             ExactSum(out.schedule, RowCommission))
    /\ DecEq(out.totals.total_bsmv_paid, ExactSum(out.schedule, RowBsmv))

\* the schedule of the given amortizer once all its N >= 1 regular rows exist
Finished(kind) ==
  /\ loan.kind = kind /\ loan.num_payments >= 1
  /\ RegularRows(Schedule) = loan.num_payments

\* C11: the last regular row of an equal-principal schedule reports a
\* remaining principal of exactly 0.00 when the principal is N times an
\* amount of cents
C11_TerminalZero ==
  (Finished("EP") /\ CentExact(loan)) =>
    RemainingAt(Schedule, loan.num_payments) = Dec(0, <<0>>, -2)

\* a finished schedule of several periods at a positive rate in variable
\* accrual mode, principal divisible to the cent, ending at 0.00
C11_Witness ==
  /\ Finished("EP") /\ CentExact(loan)
  /\ loan.num_payments >= 3 /\ loan.use_variable_accrual_days
  /\ ~DecIsZero(loan.monthly_interest_rate)
  /\ RemainingAt(Schedule, loan.num_payments) = Dec(0, <<0>>, -2)
  /\ ~DecIsZero(RemainingAt(Schedule, loan.num_payments - 1))

\* the amount |a - b| is at most one cent
WithinOneCent(a, b) ==
  /\ DecCmp(ExactSub(a, b), Dec(0, <<1>>, -2)) <= 0
  /\ DecCmp(ExactSub(a, b), Dec(1, <<1>>, -2)) >= 0

\* C12: every regular row of an equal-installment schedule has
\* installment_amount = T rounded to cents; the row of the final period may
\* deviate from it by at most one cent
C12_ConstantInstallment ==
  \A k \in 1..RegularRows(Rows("EI")) :
    LET row == Rows("EI")[RowIndex(Rows("EI"), k)]
    IN IF k < loan.num_payments
       THEN DecEq(row.installment_amount, Quantize(loan.fixed_installment))
       ELSE WithinOneCent(row.installment_amount, Quantize(loan.fixed_installment))

\* a finished schedule of several periods whose T is not an amount of cents
\* and whose principal payments differ from row to row
C12_Witness ==
  /\ Finished("EI") /\ loan.num_payments >= 3
  /\ ~DecEq(Quantize(loan.fixed_installment), loan.fixed_installment)
  /\ \A k \in 1..loan.num_payments :
       DecEq(Schedule[RowIndex(Schedule, k)].installment_amount,
             Quantize(loan.fixed_installment))
  /\ ~DecEq(Schedule[RowIndex(Schedule, 1)].principal_payment,
            Schedule[RowIndex(Schedule, 2)].principal_payment)

\* one of the decimal exceptions was raised by the call
CallRaised(o) == o.pc \in {"InvalidOperation", "DivisionByZero"}

\* the principal repaid by the regular rows of a schedule is zero
NothingRepaid(schedule) ==
  DecIsZero(ExactSum(SelectSeq(schedule, LAMBDA row : row.installment_number # 0),
                     RowPrincipal))

\* C13: summarizing a schedule whose regular rows repay a total principal of
\* zero (no regular rows, or a zero principal) raises an exception and
\* returns no summary
C13_DegenerateSummaryRaises ==
  [][/\ (EP_Summarize \/ EI_Summarize) /\ NothingRepaid(out.schedule)
        => CallRaised(out') /\ out'.summary = <<>>
     /\ (EP_SummarizeCommissionRows \/ EI_SummarizeCommissionRows)
        => CallRaised(out') /\ out'.summary = <<>>]_vars

\* a summary was asked for, after the totals were returned, and was refused
C13_Witness ==
  /\ out.pc = "InvalidOperation" /\ out.totals # <<>> /\ out.summary = <<>>
  /\ Len(out.schedule) >= 1
  /\ DecIsZero(loan.principal) \/ Len(CommissionRows(out.schedule)) = 1

\* C14: with a term of 0 months and a supported frequency the calendar and
\* the constructor of either loan complete with no payment dates,
\* calculate_schedule returns no regular rows, and the exception is raised
\* only when the summary is asked for
C14_TermZeroFailsAtSummary ==
  (loan.pc # "new" /\ loan.term = 0 /\ loan.payment_frequency \in Frequencies) =>
    /\ cal.pc = "done" /\ cal.payment_dates = <<>>
    /\ loan.pc = "constructed" /\ loan.num_payments = 0
    /\ out.pc \notin {"none", "rows"} =>
         /\ RegularRows(out.schedule) = 0
         /\ CallRaised(out) => out.totals # <<>>

\* C15: a payment_frequency other than 1m, 3m, 6m makes generate_schedule
\* raise ValueError before any period is produced (payment_dates,
\* accrual_days and accrual_date_ranges stay empty), and the constructor of
\* either loan fails with that ValueError before it sets fixed accrual days
C15_InvalidFrequency ==
  /\ (cal.pc \notin {"none", "new"} /\ cal.payment_frequency \notin Frequencies) =>
       /\ cal.pc = "ValueError"
       /\ cal.payment_dates = <<>> /\ cal.accrual_days = <<>>
       /\ cal.accrual_date_ranges = <<>>
  /\ (loan.pc \notin {"none", "new"} /\ loan.payment_frequency \notin Frequencies) =>
       /\ loan.pc = "ValueError" /\ cal.pc = "ValueError"
       /\ loan.payment_dates = <<>> /\ loan.fixed_accrual_days = <<>>
       /\ out = NoOut

\* a loan of twelve months asked for with frequency 12m was refused
C15_Witness ==
  /\ loan.pc = "ValueError" /\ loan.payment_frequency = "12m"
  /\ loan.term = MaxTerm /\ ~DecIsZero(loan.principal)
  /\ cal.pc = "ValueError" /\ cal.payment_dates = <<>>

\* calculate_schedule got past its commission row
Started == out.pc # "none" /\ ~(CallRaised(out) /\ out.schedule = <<>>)

\* C16: the schedule of either amortizer has a row numbered 0 exactly when
\* the commission is positive; it is then the first row, dated start_date,
\* with zero principal and interest, commission_payment = round(principal x
\* commission, 2), bsmv = round(commission_payment x bsmv_rate, 2) and
\* remaining_principal = principal; the rows after it are numbered 1, 2, ...
\* without gaps
C16_CommissionRow ==
  Started =>
    LET first == IF DecCmp(loan.commission, Dec(0, <<0>>, 0)) > 0 THEN 0 ELSE 1
        commission_payment == Quantize(Mul(loan.principal, loan.commission))
    IN /\ \A i \in 1..Len(out.schedule) :
            out.schedule[i].installment_number = first + i - 1
       /\ first = 0 =>
            /\ Len(out.schedule) >= 1
            /\ out.schedule[1].payment_date = loan.start_date
            /\ DecIsZero(out.schedule[1].principal_payment)
            /\ DecIsZero(out.schedule[1].interest_payment)
            /\ DecEq(out.schedule[1].commission_payment, commission_payment)
            /\ DecEq(out.schedule[1].bsmv,
                     Quantize(Mul(commission_payment, loan.bsmv_rate)))
            /\ DecEq(out.schedule[1].remaining_principal, loan.principal)

\* a finished schedule with its commission row and several regular rows
C16_Witness ==
  /\ Finished("EI") /\ loan.num_payments >= 3
  /\ Len(out.schedule) = loan.num_payments + 1
  /\ out.schedule[1].installment_number = 0
  /\ ~DecIsZero(out.schedule[1].commission_payment)
  /\ ~DecIsZero(out.schedule[1].bsmv)
  /\ out.schedule[Len(out.schedule)].installment_number = loan.num_payments

\* monthly_rate x {1, 3, 6} by frequency in fixed mode, monthly_rate x
\* (accrual_days_k / 30) in variable mode
PeriodRate(l, k) ==
  IF l.use_variable_accrual_days
  THEN Mul(l.monthly_interest_rate, Div(DecInt(cal.accrual_days[k]), DecInt(30)))
  ELSE Mul(l.monthly_interest_rate, DecInt(DeltaMonths(l.payment_frequency)))

\* the rows of scenario 2: 120000.00 at 0.02 monthly, bsmv 0.05, no
\* commission, three monthly periods in fixed mode
Scenario2 ==
  /\ loan.kind = "EP" /\ ~loan.use_variable_accrual_days
  /\ loan.principal = Cents(12000000)
  /\ loan.monthly_interest_rate = Dec(0, <<2>>, -2)
  /\ DecIsZero(loan.commission) /\ loan.bsmv_rate = Dec(0, <<5>>, -2)
  /\ loan.term = 3 /\ loan.payment_frequency = "1m"

Scenario2Rows ==
  <<[interest |-> Cents(240000), bsmv |-> Cents(12000),
     installment |-> Cents(4252000), remaining |-> Cents(8000000)],
    [interest |-> Cents(160000), bsmv |-> Cents(8000),
     installment |-> Cents(4168000), remaining |-> Cents(4000000)],
    [interest |-> Cents(80000), bsmv |-> Cents(4000),
     installment |-> Cents(4084000), remaining |-> Cents(0)]>>

\* row k of the schedule shows the figures of scenario 2
ShowsScenario2(k) ==
  /\ Schedule[k].interest_payment = Scenario2Rows[k].interest
  /\ Schedule[k].bsmv = Scenario2Rows[k].bsmv
  /\ Schedule[k].installment_amount = Scenario2Rows[k].installment
  /\ Schedule[k].remaining_principal = Scenario2Rows[k].remaining

\* C17: every regular row k of an equal-principal schedule has interest =
\* round(R x period_rate, 2) for the running remaining principal R before
\* period k, bsmv = round(interest x bsmv_rate, 2) and principal_payment =
\* round(principal / N, 2), rounded half-up; scenario 2 gives interest
\* 2400.00 / 1600.00 / 800.00, bsmv 120.00 / 80.00 / 40.00, installments
\* 42520.00 / 41680.00 / 40840.00 and remaining 80000.00 / 40000.00 / 0.00
C17_EqualPrincipalRows ==
  /\ \A k \in 1..RegularRows(Rows("EP")) :
       LET row == Rows("EP")[RowIndex(Rows("EP"), k)]
           interest == Quantize(Mul(Balance(loan, k - 1), PeriodRate(loan, k)))
       IN /\ row.installment_number = k
          /\ row.interest_payment = interest
          /\ row.bsmv = Quantize(Mul(interest, loan.bsmv_rate))
          /\ row.principal_payment =
               Quantize(Div(loan.principal, DecInt(loan.num_payments)))
  /\ Scenario2 => \A k \in 1..Len(Schedule) : ShowsScenario2(k)

\* the three rows of scenario 2
C17_Witness ==
  /\ Scenario2 /\ Finished("EP") /\ Len(Schedule) = 3
  /\ \A k \in 1..3 : ShowsScenario2(k)

\* the constructor arguments of loan l, with another start date and country
Twin(l, start, country) ==
  [LoanArgs(l.kind, l.principal, l.monthly_interest_rate, l.commission, start,
            l.term, l.payment_frequency, l.bsmv_rate, l.use_variable_accrual_days)
     EXCEPT !.country = country]

\* the loan object a constructor call with arguments a yields
Constructed(a) == IF a.kind = "EP" THEN EP_init(a) ELSE EI_init(a)

\* the outcome of calculate_schedule on the constructed loan l
Calculated(l) ==
  IF l.kind = "EP" THEN EP_calculate_schedule(l) ELSE EI_calculate_schedule(l)

\* the loan accrues over the nominal days of its frequency
FixedAccrual(l) == l.kind = "EI" \/ ~l.use_variable_accrual_days

\* two rows agree in every field but payment_date
SameButDate(r, q) == [r EXCEPT !.payment_date = 0] = [q EXCEPT !.payment_date = 0]

\* two schedules agree row by row in every field but payment_date
SameAmounts(s, t) ==
  /\ Len(s) = Len(t)
  /\ \A i \in 1..Len(s) : SameButDate(s[i], t[i])

\* C18: in fixed accrual mode a loan with the same terms but another start date
\* or another holiday calendar is constructed as well and yields rows that are
\* equal in every amount, in remaining_principal and in accrual_days; only
\* payment_date may differ.
C18_FixedModeIgnoresCalendar ==
  (loan.pc = "constructed" /\ out.pc = "returned" /\ FixedAccrual(loan)) =>
    \A start \in StartDates, country \in LoanCountries :
      Val(Constructed(Twin(loan, start, country)), LAMBDA twin :
        /\ twin.pc = "constructed"
        /\ Val(Calculated(twin), LAMBDA o :
             o.pc = "returned" /\ SameAmounts(o.schedule, out.schedule)))

\* a finished fixed-mode schedule with regular rows, and a loan of the same terms
\* whose payment dates and actual accrual days are different
C18_Witness ==
  /\ loan.pc = "constructed" /\ out.pc = "returned" /\ FixedAccrual(loan)
  /\ loan.kind = "EP" /\ loan.num_payments >= 3
  /\ ~DecIsZero(loan.principal) /\ ~DecIsZero(loan.monthly_interest_rate)
  /\ \E start \in StartDates, country \in LoanCountries :
       Val(Constructed(Twin(loan, start, country)), LAMBDA twin :
         /\ twin.pc = "constructed"
         /\ twin.payment_dates # loan.payment_dates
         /\ twin.actual_accrual_days # loan.actual_accrual_days
         /\ SameAmounts(Calculated(twin).schedule, out.schedule))

\* ---------------------------------------------------------------------------
\* Repeated calls on one object: generate_schedule called again (to_dataframe,
\* the lazy getters, a caller), calculate_schedule called again.
\* ---------------------------------------------------------------------------

\* the number of repeated calls of each method
MaxRuns == 1

\* the loan object with the dictionaries it holds by reference to its
\* payment calendar: payment_dates, and actual_accrual_days (EqualPrincipalLoan)
\* or turkish_banking_accrual_days (EqualInstallmentLoan)
Shared(l, c) ==
  IF l.kind = "EP"
  THEN [l EXCEPT !.payment_dates = c.payment_dates,
                 !.actual_accrual_days = c.accrual_days]
  ELSE [l EXCEPT !.payment_dates = c.payment_dates,
                 !.fixed_accrual_days = c.turkish_banking_accrual_days]

\* generate_schedule called on a calendar whose dictionaries are populated
CalGenerateAgain ==
  /\ cal.pc \in {"done", "ValueError"} /\ cal.runs < MaxRuns
  /\ out.pc # "rows"
  /\ cal' = [GenerateSchedule(cal) EXCEPT !.runs = cal.runs + 1]
  /\ UNCHANGED <<loan, out>>

\* EqualPrincipalLoan.calculate_schedule called again on the same loan
EP_ScheduleAgain ==
  /\ loan.pc = "constructed" /\ loan.kind = "EP"
  /\ out.pc \notin {"none", "rows"} /\ out.calls < MaxRuns
  /\ out' = [EP_calculate_schedule(Shared(loan, cal)) EXCEPT !.calls = out.calls + 1]
  /\ UNCHANGED <<cal, loan>>

\* EqualInstallmentLoan.calculate_schedule called again on the same loan
EI_ScheduleAgain ==
  /\ loan.pc = "constructed" /\ loan.kind = "EI"
  /\ out.pc \notin {"none", "rows"} /\ out.calls < MaxRuns
  /\ out' = [EI_calculate_schedule(Shared(loan, cal)) EXCEPT !.calls = out.calls + 1]
  /\ UNCHANGED <<cal, loan>>

\* the loans of the repeated calls
RepeatTerms == {0, 3}

InitRepeat ==
  \/ InitCal
  \/ InitLoan /\ loan.term \in RepeatTerms

NextRepeat ==
  \/ NextCal
  \/ NextLoan
  \/ CalGenerateAgain
  \/ EP_ScheduleAgain
  \/ EI_ScheduleAgain

SpecRepeat == InitRepeat /\ [][NextRepeat]_vars

\* what generate_schedule leaves on a new calendar with the arguments of c
FirstRun(c) ==
  GenerateSchedule(NewCalendar(c.start_date, c.term_in_months, c.payment_frequency,
                               c.holiday_calendar))

\* what calculate_schedule returns on a new loan with the arguments of l
FirstCall(l) == Calculated(Constructed(Twin(l, l.start_date, l.country)))

\* C19: whenever generate_schedule has completed, for the first time or again,
\* payment_dates, accrual_days and accrual_date_ranges are those a new calendar
\* with the same arguments gets from its first run, and the run ends the same
\* way; a constructed loan still sees those dictionaries; whenever
\* calculate_schedule has completed, for the first time or again, its rows are
\* those of the first call on a new loan with the same terms and country.
C19_Repeatable ==
  /\ cal.pc \in {"done", "ValueError"} =>
       Val(FirstRun(cal), LAMBDA first :
         /\ cal.pc = first.pc
         /\ cal.payment_dates = first.payment_dates
         /\ cal.accrual_days = first.accrual_days
         /\ cal.accrual_date_ranges = first.accrual_date_ranges)
  /\ loan.pc = "constructed" => Shared(loan, cal) = loan
  /\ (loan.pc = "constructed" /\ out.pc \notin {"none", "rows"}) =>
       out.schedule = FirstCall(loan).schedule

\* a calendar whose schedule was generated again, with a loan on it whose
\* schedule of at least three regular rows on actual accrual days was
\* calculated again
C19_Witness ==
  /\ cal.pc = "done" /\ cal.runs >= 1
  /\ loan.pc = "constructed" /\ loan.kind = "EP" /\ loan.use_variable_accrual_days
  /\ out.pc = "returned" /\ out.calls >= 1
  /\ RegularRows(out.schedule) >= 3
  /\ ~DecIsZero(loan.principal) /\ ~DecIsZero(loan.monthly_interest_rate)

\* a positive decimal
Positive(a) == a.sign = 0 /\ ~DecIsZero(a)

\* regular row k of a schedule
RegularRow(schedule, k) == schedule[RowIndex(schedule, k)]

\* C20: in an equal-installment schedule of a loan with positive principal and
\* positive rate, from each regular row to the next interest_payment and bsmv do
\* not grow, principal_payment does not shrink and remaining_principal falls.
C20_InterestShrinks ==
  (loan.kind = "EI" /\ Positive(loan.principal) /\ Positive(loan.monthly_interest_rate)) =>
    \A k \in 1..(RegularRows(Schedule) - 1) :
      Val2(RegularRow(Schedule, k), RegularRow(Schedule, k + 1), LAMBDA row, next :
        /\ DecCmp(next.interest_payment, row.interest_payment) <= 0
        /\ DecCmp(next.bsmv, row.bsmv) <= 0
        /\ DecCmp(next.remaining_principal, row.remaining_principal) < 0
        /\ DecCmp(next.principal_payment, row.principal_payment) >= 0)

\* C21: an equal-installment loan with positive principal, at least one period
\* and a monthly rate that is zero or positive is constructed with a fixed
\* installment, and its finished schedule has one regular row per period.
C21_InstallmentSized ==
  (/\ loan.kind = "EI" /\ loan.pc # "new"
   /\ Positive(loan.principal) /\ loan.monthly_interest_rate.sign = 0
   /\ loan.payment_frequency \in Frequencies /\ NumPeriods(cal) >= 1) =>
    /\ loan.pc = "constructed"
    /\ ~Raised(loan.fixed_installment)
    /\ out.pc \notin {"none", "rows"} => RegularRows(out.schedule) = NumPeriods(cal)

\* the principal is an amount of cents
CentPrincipal(l) == DecEq(Quantize(l.principal), l.principal)

\* C22: in an equal-installment schedule of a loan whose principal is an amount
\* of cents, every regular row k reports remaining_principal_(k-1) -
\* principal_payment_k exactly, with remaining_principal_0 the principal; the
\* finished schedule has principal = sum of principal_payment +
\* remaining_principal_N; the last row is computed as every other row, its
\* principal_payment being T - interest_payment - bsmv, subtracted in the
\* 15-digit context of the calculation and rounded to cents.
C22_PrincipalConserved ==
  (loan.kind = "EI" /\ CentPrincipal(loan)) =>
    /\ \A k \in 1..RegularRows(Schedule) :
         /\ DecIsZero(DecrementGap(Schedule, k))
         /\ Val(RegularRow(Schedule, k), LAMBDA row :
              DecEq(row.principal_payment,
                    Quantize(Sub(Sub(loan.fixed_installment, row.interest_payment),
                                 row.bsmv))))
    /\ Finished("EI") =>
         DecEq(loan.principal,
               ExactAdd(ExactSum(Schedule, RowPrincipal),
                        RemainingAt(Schedule, loan.num_payments)))

\* a finished equal-installment schedule of several periods, at a positive
\* rate, whose last row is left with a residual that is not 0.00
C22_Witness ==
  /\ Finished("EI") /\ CentPrincipal(loan) /\ loan.num_payments >= 3
  /\ Positive(loan.principal) /\ Positive(loan.monthly_interest_rate)
  /\ ~DecIsZero(RemainingAt(Schedule, loan.num_payments))
  /\ DecEq(loan.principal,
           ExactAdd(ExactSum(Schedule, RowPrincipal),
                    RemainingAt(Schedule, loan.num_payments)))
====
